---- MODULE Spec2Model ----
(***************************************************************************)
(* Model of the text-buffer core of the hammare editor: src/document.rs.   *)
(* A Document owns a vector of rows, an optional file name, a dirty flag   *)
(* and a file type.  Rows (row.rs) and file types (filetype.rs) are used   *)
(* by document.rs but are not part of the sources at hand; they are        *)
(* modelled from the specification of the Line component.                  *)
(*                                                                         *)
(* Characters are code points, file contents are byte sequences.           *)
(***************************************************************************)
EXTENDS Integers, Sequences, FiniteSets, TLC

\* ---------------------------------------------------------------- bounds
MaxRows == 2          \* largest number of rows the model lets a document grow to
MaxLen == 2           \* largest number of characters the model lets a row grow to
MaxChars == 3         \* largest number of characters the model lets all rows hold

\* ------------------------------------------------------------ characters
NL == 10              \* '\n'
CR == 13              \* '\r'
Letter == 97          \* 'a'
Chars == {Letter, CR, NL}          \* the characters of the model
Typed == {Letter, NL}             \* the characters the caller inserts
None == <<>>                      \* Option::None
Some(v) == <<v>>                  \* Option::Some
Unwrap(o) == o[1]
Path == "doc.rs"                  \* the one path of the modelled file system
NoFile == <<-1>>                  \* the path does not exist / cannot be read
Forward == "Forward"
Backward == "Backward"

Min(a, b) == IF a < b THEN a ELSE b

\* ----------------------------------------------------- FileType (filetype.rs)
FileTypeDefault == [name |-> "No filetype", numbers |-> FALSE]

EndsWithRs(n) == n = "doc.rs"

FileTypeFrom(n) ==
    IF EndsWithRs(n) THEN [name |-> "Rust", numbers |-> TRUE] ELSE FileTypeDefault

highlighting_options(ft) == [numbers |-> ft.numbers]

HighlightingOptions == {[numbers |-> TRUE], [numbers |-> FALSE]}

\* ------------------------------------------------------------ Row (row.rs)
Words == {None, Some(<<Letter, Letter>>)}   \* search words handed to highlight

IsDigit(c) == c >= 48 /\ c <= 57

OccursAt(s, q, j) ==
    /\ j >= 1
    /\ j + Len(q) - 1 <= Len(s)
    /\ SubSeq(s, j, j + Len(q) - 1) = q

\* the annotations of a row's content: one per character
Annotate(s, opts, word) ==
    [i \in 1..Len(s) |->
        IF word # None /\ Len(Unwrap(word)) > 0
              /\ \E j \in 1..i : j + Len(Unwrap(word)) > i /\ OccursAt(s, Unwrap(word), j)
        THEN "Match"
        ELSE IF opts.numbers /\ IsDigit(s[i]) THEN "Number" ELSE "None"]

RowDefault == [string |-> <<>>, highlighting |-> <<>>]

RowFrom(s) == [string |-> s, highlighting |-> <<>>]

RowLen(r) == Len(r.string)

RowHighlight(r, opts, word) ==
    [r EXCEPT !.highlighting = Annotate(r.string, opts, word)]

\* what Line.insert does with a column past the end is left open
RowInsertModes == {"clamp", "ignore"}

RowInsert(r, at, c, mode) ==
    IF at <= Len(r.string)
    THEN [r EXCEPT !.string = SubSeq(r.string, 1, at) \o <<c>>
                                \o SubSeq(r.string, at + 1, Len(r.string))]
    ELSE IF mode = "clamp"
         THEN [r EXCEPT !.string = Append(r.string, c)]
         ELSE r

RowDelete(r, at) ==
    IF at >= Len(r.string)
    THEN r
    ELSE [r EXCEPT !.string = SubSeq(r.string, 1, at)
                                \o SubSeq(r.string, at + 2, Len(r.string))]

RowAppend(r, other) == [r EXCEPT !.string = r.string \o other.string]

\* <<the truncated row, the new row holding the suffix>>
RowSplit(r, at) ==
    << [r EXCEPT !.string = SubSeq(r.string, 1, Min(at, Len(r.string)))],
       RowFrom(SubSeq(r.string, Min(at, Len(r.string)) + 1, Len(r.string))) >>

\* where Line.find looks: from the column on (Forward), or in the columns
\* before it (Backward); what it does with a column past the end is left open
RowFindModes == {"clamp", "none"}

MinOf(S) == CHOOSE m \in S : \A k \in S : m <= k
MaxOf(S) == CHOOSE m \in S : \A k \in S : m >= k

\* the columns (counted from 0) at which Line.find may report query
RowMatches(r, query, at, direction) ==
    IF direction = Forward
    THEN {j \in at..Len(r.string) : OccursAt(r.string, query, j + 1)}
    ELSE {j \in 0..Min(at, Len(r.string)) :
              /\ j + Len(query) <= Min(at, Len(r.string))
              /\ OccursAt(r.string, query, j + 1)}

RowFind(r, query, at, direction, mode) ==
    LET found == RowMatches(r, query, at, direction)
    IN  IF at > Len(r.string) /\ mode = "none" THEN None
        ELSE IF found = {} THEN None
        ELSE IF direction = Forward THEN Some(MinOf(found)) ELSE Some(MaxOf(found))

\* UTF-8 encoding of one code point below 0x800
Utf8Char(c) == IF c < 128 THEN <<c>> ELSE <<192 + (c \div 64), 128 + (c % 64)>>

RECURSIVE Utf8(_)
Utf8(s) == IF s = <<>> THEN <<>> ELSE Utf8Char(Head(s)) \o Utf8(Tail(s))

RowAsBytes(r) == Utf8(r.string)

\* UTF-8 decoding (fs::read_to_string): the code points, or Invalid
Invalid == <<-1>>

RECURSIVE FromUtf8(_)
FromUtf8(b) ==
    IF b = <<>> THEN <<>>
    ELSE IF b[1] < 128
         THEN LET rest == FromUtf8(Tail(b))
              IN  IF rest = Invalid THEN Invalid ELSE <<b[1]>> \o rest
         ELSE IF b[1] >= 194 /\ b[1] < 224 /\ Len(b) >= 2 /\ b[2] >= 128 /\ b[2] < 192
              THEN LET rest == FromUtf8(Tail(Tail(b)))
                   IN  IF rest = Invalid THEN Invalid
                       ELSE <<(b[1] - 192) * 64 + (b[2] - 128)>> \o rest
              ELSE Invalid

\* str::lines: split after every '\n'; a piece that ends in '\n' loses it and
\* then one '\r' before it; a last piece without '\n' is kept as it is
FirstNL(s) ==
    IF \E i \in 1..Len(s) : s[i] = NL
    THEN CHOOSE i \in 1..Len(s) : s[i] = NL /\ \A j \in 1..(i - 1) : s[j] # NL
    ELSE 0

StripCR(s) ==
    IF Len(s) > 0 /\ s[Len(s)] = CR THEN SubSeq(s, 1, Len(s) - 1) ELSE s

RECURSIVE Lines(_)
Lines(s) ==
    IF s = <<>> THEN <<>>
    ELSE IF FirstNL(s) = 0 THEN <<s>>
    ELSE <<StripCR(SubSeq(s, 1, FirstNL(s) - 1))>>
             \o Lines(SubSeq(s, FirstNL(s) + 1, Len(s)))

\* ------------------------------------------------------------- Document
\* Vec helpers, indices counted from 0 as in the source
Get(v, i) == v[i + 1]
\* Vec::get / get_mut give Some for an index below the length
HasRow(v, i) == i < Len(v)
VecInsert(v, i, e) == SubSeq(v, 1, i) \o <<e>> \o SubSeq(v, i + 1, Len(v))
VecRemove(v, i) == SubSeq(v, 1, i) \o SubSeq(v, i + 2, Len(v))
VecSet(v, i, e) == [v EXCEPT ![i + 1] = e]

DocumentDefault ==
    [rows |-> <<>>, file_name |-> None, dirty |-> FALSE, file_type |-> FileTypeDefault]

\* the outcome of an edit: the document, and whether the call panicked
Returned(d) == [doc |-> d, panicked |-> FALSE]
Panicked(d) == [doc |-> d, panicked |-> TRUE]

OpenRows(contents, ft) ==
    [i \in 1..Len(Lines(contents)) |->
        RowHighlight(RowFrom(Lines(contents)[i]), highlighting_options(ft), None)]

\* Document::open: [ok, doc]; doc is the document of Ok, and for Err the
\* default document the caller goes on with
open(disk, filename) ==
    IF disk = NoFile \/ FromUtf8(disk) = Invalid
    THEN [ok |-> FALSE, doc |-> DocumentDefault]
    ELSE [ok |-> TRUE,
          doc |-> [rows |-> OpenRows(FromUtf8(disk), FileTypeFrom(filename)),
                   file_name |-> Some(filename),
                   dirty |-> FALSE,
                   file_type |-> FileTypeFrom(filename)]]

\* >= for >: the row after the last one is refused
NewlineOutOfRangeEq(d, at) == at.y >= Len(d.rows)

NewlineOutOfRange(d, at) == at.y > Len(d.rows)

NewlineAppendedRow == RowDefault

\* the new row is put before the row that was split
NewRowIndexSame(at) == at.y

\* at.y.saturating_add(1): the new row follows the row that was split
NewRowIndex(at) == at.y + 1

insert_newline(d, at) ==
    IF NewlineOutOfRange(d, at) THEN Returned(d)
    ELSE IF at.y = Len(d.rows)
    THEN Returned([d EXCEPT !.rows = Append(d.rows, NewlineAppendedRow)])
    ELSE IF ~HasRow(d.rows, at.y) THEN Panicked(d)
    ELSE LET parts == RowSplit(Get(d.rows, at.y), at.x)
             current_row == RowHighlight(parts[1], highlighting_options(d.file_type), None)
             new_row == RowHighlight(parts[2], highlighting_options(d.file_type), None)
         IN  Returned([d EXCEPT !.rows =
                 VecInsert(VecSet(d.rows, at.y, current_row), NewRowIndex(at), new_row)])

\* the guard lets one row too many through
InsertOutOfRangeLoose(d, at) == at.y > Len(d.rows) + 1

InsertOutOfRange(d, at) == at.y > Len(d.rows)

\* the insert forgets the flag
InsertKeepsDirty(d) == d

InsertMarksDirty(d) == [d EXCEPT !.dirty = TRUE]

\* the line break is inserted like any character
IsLineBreakNever(c) == FALSE

IsLineBreak(c) == c = NL

\* the Ordering::Equal arm: a default row is highlighted, then receives c
InsertAppendedRow(d, c, mode) ==
    RowInsert(RowHighlight(RowDefault, highlighting_options(d.file_type), None), 0, c, mode)

\* the Ordering::Less arm: the row receives c, then is highlighted
InsertIntoRow(d, at, c, mode) ==
    RowHighlight(RowInsert(Get(d.rows, at.y), at.x, c, mode),
                 highlighting_options(d.file_type), None)

insert(d, at, c, mode) ==
    IF InsertOutOfRange(d, at) THEN Returned(d)
    ELSE LET d1 == InsertMarksDirty(d)
         IN  IF IsLineBreak(c) THEN insert_newline(d1, at)
             ELSE IF at.y = Len(d1.rows)
                  THEN Returned([d1 EXCEPT !.rows = Append(d1.rows, InsertAppendedRow(d1, c, mode))])
             ELSE IF at.y < Len(d1.rows)
                  THEN IF ~HasRow(d1.rows, at.y) THEN Panicked(d1)
                       ELSE Returned([d1 EXCEPT !.rows = VecSet(d1.rows, at.y, InsertIntoRow(d1, at, c, mode))])
             ELSE Panicked(d1)

\* > for >=: the row after the last one is let through
DeleteOutOfRangeLoose(d, at) == at.y > Len(d.rows)

\* the columns insert hands to a row, each with the length the row has then:
\* split(at.x) in insert_newline, insert(0, c) on the row that is appended,
\* insert(at.x, c) on the row at.y
RowColumns(d, at, c) ==
    IF InsertOutOfRange(d, at) THEN {}
    ELSE IF IsLineBreak(c)
    THEN IF NewlineOutOfRange(d, at) \/ at.y = Len(d.rows) THEN {}
         ELSE {[column |-> at.x, len |-> RowLen(Get(d.rows, at.y))]}
    ELSE IF at.y = Len(d.rows) THEN {[column |-> 0, len |-> 0]}
    ELSE {[column |-> at.x, len |-> RowLen(Get(d.rows, at.y))]}

DeleteOutOfRange(d, at) == at.y >= Len(d.rows)

\* the delete forgets the flag
DeleteKeepsDirty(d) == d

DeleteMarksDirty(d) == [d EXCEPT !.dirty = TRUE]

\* the delete never joins two rows
DeleteNeverMerges(d, at) == FALSE

\* the delete joins without asking for a row that follows
DeleteMergesAtLastRow(d, at) == at.x = RowLen(Get(d.rows, at.y))

DeleteMerges(d, at) ==
    at.x = RowLen(Get(d.rows, at.y)) /\ at.y + 1 < Len(d.rows)

\* the row itself is taken out and joined to the one that follows
MergedRowIndexSame(at) == at.y

\* rows.remove(at.y + 1): the row after at.y is taken out
MergedRowIndex(at) == at.y + 1

\* each rows.get_mut(at.y).expect(..) panics when the row is missing, and so
\* does rows.remove
delete(d, at) ==
    IF DeleteOutOfRange(d, at) THEN Returned(d)
    ELSE LET d1 == DeleteMarksDirty(d)
         IN  IF ~HasRow(d1.rows, at.y) THEN Panicked(d1)
             ELSE IF DeleteMerges(d1, at)
             THEN LET next_row == Get(d1.rows, MergedRowIndex(at))
                      removed == VecRemove(d1.rows, MergedRowIndex(at))
                  IN  IF ~HasRow(d1.rows, MergedRowIndex(at)) THEN Panicked(d1)
                      ELSE IF ~HasRow(removed, at.y) THEN Panicked(d1)
                      ELSE LET row == RowHighlight(RowAppend(Get(removed, at.y), next_row),
                                                   highlighting_options(d1.file_type), None)
                           IN  Returned([d1 EXCEPT !.rows = VecSet(removed, at.y, row)])
             ELSE LET row == RowHighlight(RowDelete(Get(d1.rows, at.y), at.x),
                                          highlighting_options(d1.file_type), None)
                  IN  Returned([d1 EXCEPT !.rows = VecSet(d1.rows, at.y, row)])

\* ---- save.  A failure is [create, writes]: whether File::create succeeds and
\* how many write_all calls succeed before one fails (2 per row: the row's
\* bytes, then the line break); writes = 2 * rows means none fails.
SaveFailures(d) ==
    [create : BOOLEAN, writes : 0..(2 * Len(d.rows))]

NoFailure(d) == [create |-> TRUE, writes |-> 2 * Len(d.rows)]

RECURSIVE Written(_, _, _)
Written(rows, i, writes) ==
    IF i > Len(rows) THEN <<>>
    ELSE (IF 2 * i - 1 <= writes THEN RowAsBytes(rows[i]) ELSE <<>>)
         \o (IF 2 * i <= writes THEN <<NL>> ELSE <<>>)
         \o Written(rows, i + 1, writes)

SaveRows(rows, ft, writes) ==
    [i \in 1..Len(rows) |->
        IF 2 * i <= writes
        THEN RowHighlight(rows[i], highlighting_options(ft), None)
        ELSE rows[i]]

\* the flag is never cleared / is cleared before the writes
SaveNeverClears(d, fail) == FALSE
SaveAlwaysClears(d, fail) == TRUE

SaveClearsDirty(d, fail) == fail.writes = 2 * Len(d.rows)

\* the flag is cleared outside the if let
SaveUnnamedClears(d, disk) ==
    [ok |-> TRUE, doc |-> [d EXCEPT !.dirty = FALSE], disk |-> disk]

\* file_name is None: the if let is skipped and Ok(()) returned
SaveUnnamed(d, disk) == [ok |-> TRUE, doc |-> d, disk |-> disk]

\* Document::save: [ok, doc, disk]
save(d, disk, fail) ==
    IF d.file_name = None
    THEN SaveUnnamed(d, disk)
    ELSE IF ~fail.create
    THEN [ok |-> FALSE, doc |-> d, disk |-> disk]
    ELSE LET ft == FileTypeFrom(Unwrap(d.file_name))
             d1 == [d EXCEPT !.file_type = ft,
                             !.rows = SaveRows(d.rows, ft, fail.writes)]
         IN  [ok |-> fail.writes = 2 * Len(d.rows),
              doc |-> IF SaveClearsDirty(d, fail) THEN [d1 EXCEPT !.dirty = FALSE] ELSE d1,
              disk |-> Written(d.rows, 1, fail.writes)]

\* Document::highlight
highlight(d, word) ==
    [d EXCEPT !.rows =
        [i \in 1..Len(d.rows) |->
            RowHighlight(d.rows[i], highlighting_options(d.file_type), word)]]

\* ---- find.  The loop runs end - start times; position is its cursor.
FindOutOfRange(d, at) == at.y >= Len(d.rows)

FindStart(d, at, direction) == IF direction = Forward THEN at.y ELSE 0

\* the backward scan stops short of row 0
FindEndExclusive(d, at, direction) ==
    IF direction = Forward THEN Len(d.rows) ELSE at.y

FindEnd(d, at, direction) ==
    IF direction = Forward THEN Len(d.rows) ELSE at.y + 1

\* the column is kept when the scan moves down a row
ForwardNextKeepsColumn(d, position) ==
    [x |-> position.x, y |-> position.y + 1]

ForwardNext(d, position) == [x |-> 0, y |-> position.y + 1]

SaturatingSub(a, b) == IF a < b THEN 0 ELSE a - b

BackwardNext(d, position) ==
    LET y == SaturatingSub(position.y, 1)
    IN  [x |-> IF HasRow(d.rows, y) THEN RowLen(Get(d.rows, y)) ELSE position.x,
         y |-> y]

\* the match is reported in the row the search started in
FoundInStartRow(position, x, at) == Some([x |-> x, y |-> at.y])

Found(position, x, at) == Some([x |-> x, y |-> position.y])

RECURSIVE FindLoop(_, _, _, _, _, _, _)
FindLoop(d, query, at, position, direction, n, mode) ==
    IF n <= 0 THEN None
    ELSE IF ~HasRow(d.rows, position.y) THEN None
    ELSE LET x == RowFind(Get(d.rows, position.y), query, position.x, direction, mode)
         IN  IF x # None THEN Found(position, Unwrap(x), at)
             ELSE FindLoop(d, query, at,
                           IF direction = Forward THEN ForwardNext(d, position)
                                                  ELSE BackwardNext(d, position),
                           direction, n - 1, mode)

\* Document::find: None, or Some position
find(d, query, at, direction, mode) ==
    IF FindOutOfRange(d, at) THEN None
    ELSE FindLoop(d, query, at, [x |-> at.x, y |-> at.y], direction,
                  FindEnd(d, at, direction) - FindStart(d, at, direction), mode)

\* ------------------------------------------------------------ the system
\* The document is built once, by Document::default or Document::open, and is
\* then edited and saved; nothing reads the file again, so the bytes a save
\* leaves behind are a result of save and not a variable.
VARIABLES
    rows,        \* Document.rows
    file_name,   \* Document.file_name
    dirty,       \* Document.dirty
    file_type,   \* Document.file_type
    saved,       \* the row contents at open or at the last save that wrote them all
    aborted,     \* the process panicked
    last         \* the call that produced this state

vars == <<rows, file_name, dirty, file_type, saved, aborted, last>>

Doc == [rows |-> rows, file_name |-> file_name, dirty |-> dirty, file_type |-> file_type]

SetDoc(d) ==
    /\ rows' = d.rows
    /\ file_name' = d.file_name
    /\ dirty' = d.dirty
    /\ file_type' = d.file_type

Content(rs) == [i \in 1..Len(rs) |-> rs[i].string]

\* the positions the claims range over, and those the caller uses
Positions == [x : 0..(MaxLen + 1), y : 0..(MaxRows + 1)]
Called == [x : 0..MaxLen, y : 0..MaxRows]

\* Line.insert has a choice to make only for a column past the end of the row
ModesAt(at, c) ==
    IF c # NL /\ at.y < Len(rows) /\ at.x > RowLen(Get(rows, at.y))
    THEN RowInsertModes ELSE {"clamp"}

\* saved when the saved contents are not followed
Untracked == << <<-1>> >>

RECURSIVE TotalChars(_)
TotalChars(rs) == IF rs = <<>> THEN 0 ELSE RowLen(Head(rs)) + TotalChars(Tail(rs))

\* the documents the model explores: at most MaxRows rows of at most MaxLen
\* characters and MaxChars characters in all, and fewer than MaxLen characters
\* in all where the saved contents are followed
Sized(d) ==
    /\ Len(d.rows) <= MaxRows
    /\ \A i \in 1..Len(d.rows) : RowLen(d.rows[i]) <= MaxLen
    /\ TotalChars(d.rows) <= MaxChars

WithinBounds(d) ==
    /\ Sized(d)
    /\ saved # Untracked => TotalChars(d.rows) < MaxLen

\* what may be found under Path when the editor starts: nothing, bytes that
\* are not UTF-8, an empty line, "\r\r\n\n", "a\r\na"
InitialFiles ==
    {NoFile, <<195>>, <<NL>>, <<CR, CR, NL, NL>>, <<Letter, CR, NL, Letter>>}

NoPos == [x |-> 0, y |-> MaxRows + 2]

\* where a position's row lies: inside the document, at the row after the last
\* one, or beyond it
Where(at) ==
    IF at.y < Len(rows) THEN "inside" ELSE IF at.y = Len(rows) THEN "append" ELSE "beyond"

\* a call: its name, where its position lay, its character, whether it returned
\* without an error; at is the position of an insert the document took, kept
\* for the delete that may follow it; dir is the direction of a search; delta
\* is the number of rows an edit added
Call(op, where, c, ok) ==
    [op |-> op, where |-> where, c |-> c, ok |-> ok, at |-> NoPos, undoes |-> FALSE,
     dir |-> "-", delta |-> 0]

InitDoc(d, call) ==
    /\ rows = d.rows
    /\ file_name = d.file_name
    /\ dirty = d.dirty
    /\ file_type = d.file_type
    /\ aborted = FALSE
    /\ last = call

Construct ==
    \/ InitDoc(DocumentDefault, Call("default", "-", 0, TRUE))
    \/ \E f \in InitialFiles :
          LET r == open(f, Path)
          IN  InitDoc(r.doc, Call("open", "-", 0, r.ok))

Init == Construct /\ saved = Untracked

InitSaved == Construct /\ saved = Content(rows)

\* the caller names an unnamed buffer (file_name is a public field)
SetFileName ==
    /\ ~aborted
    /\ file_name = None
    /\ file_name' = Some(Path)
    /\ last' = Call("set_file_name", "-", 0, TRUE)
    /\ UNCHANGED <<rows, dirty, file_type, saved, aborted>>

Insert ==
    /\ ~aborted
    /\ \E at \in Called, c \in Typed :
        \E mode \in ModesAt(at, c) :
          LET r == insert(Doc, at, c, mode)
          IN  /\ WithinBounds(r.doc)
              /\ SetDoc(r.doc)
              /\ aborted' = r.panicked
              /\ last' = [Call("insert", Where(at), c, ~r.panicked)
                             EXCEPT !.at = IF Where(at) = "beyond" THEN NoPos ELSE at,
                                    !.delta = Len(r.doc.rows) - Len(rows)]
    /\ UNCHANGED saved

\* undoes: the call deletes at the position of the insert just before it
Delete ==
    /\ ~aborted
    /\ \E at \in Called :
          LET r == delete(Doc, at)
          IN  /\ WithinBounds(r.doc)
              /\ SetDoc(r.doc)
              /\ aborted' = r.panicked
              /\ last' = [Call("delete", Where(at), 0, ~r.panicked)
                             EXCEPT !.undoes = (last.op = "insert" /\ last.at = at),
                                    !.delta = Len(r.doc.rows) - Len(rows)]
    /\ UNCHANGED saved

Save ==
    /\ ~aborted
    /\ \E fail \in SaveFailures(Doc) :
          LET r == save(Doc, NoFile, fail)
          IN  /\ file_name = None => fail = NoFailure(Doc)
              /\ ~fail.create => fail.writes = 0
              /\ SetDoc(r.doc)
              /\ saved' = IF r.ok /\ file_name # None /\ saved # Untracked
                          THEN Content(rows) ELSE saved
              /\ last' = Call("save", "-", 0, r.ok)
    /\ UNCHANGED aborted

Highlight ==
    /\ ~aborted
    /\ \E word \in Words :
          /\ SetDoc(highlight(Doc, word))
          /\ last' = Call("highlight", "-", 0, TRUE)
    /\ UNCHANGED <<saved, aborted>>

\* the queries searched for: "a" and "aa"
Queries == {<<Letter>>, <<Letter, Letter>>}

\* Line.find has a choice to make only for a column past the end of the row,
\* and looking backward
FindModesAt(at, direction) ==
    IF direction = Backward /\ at.y < Len(rows) /\ at.x > RowLen(Get(rows, at.y))
    THEN RowFindModes ELSE {"clamp"}

\* where find came to rest: in the row it started in, in another row, or
\* nowhere (and then where the start lay)
Rest(at, r) ==
    IF r = None THEN Where(at) ELSE IF Unwrap(r).y = at.y THEN "same" ELSE "other"

\* find takes &self: the document stays as it is; ok: a position was returned
Find ==
    /\ ~aborted
    /\ \E query \in Queries, at \in Called, direction \in {Forward, Backward} :
        \E mode \in FindModesAt(at, direction) :
          LET r == find(Doc, query, at, direction, mode)
          IN  last' = [Call("find", Rest(at, r), 0, r # None) EXCEPT !.dir = direction]
    /\ UNCHANGED <<rows, file_name, dirty, file_type, saved, aborted>>

Next == SetFileName \/ Delete \/ Insert \/ Save \/ Highlight

\* find reads the document and leaves it as it is, so the documents reached
\* are those of Next; the searches are followed over the documents the edits
\* produce
NextFind == Delete \/ Insert \/ Find

\* the document and its calls
Spec == Init /\ [][Next]_vars

\* the same, with the saved contents followed
SpecSaved == InitSaved /\ [][Next]_vars

\* the document, its edits and its searches
SpecFind == Init /\ [][NextFind]_vars

\* ------------------------------------------------------------ the claims
Accepted(at) == at.y <= Len(rows)
Inside(at) == at.y < Len(rows)

DirtyIffDiffers == dirty <=> (Content(rows) # saved)

\* C2, amended: whenever the row contents differ from those at the last save
\* that wrote them (or at open, or at the start), dirty is true.
DiffersImpliesDirty == (Content(rows) # saved) => dirty

DiffersImpliesDirtyReached ==
    /\ last.op = "delete"
    /\ last.where = "inside"
    /\ file_name # None
    /\ Content(rows) # saved
    /\ dirty

\* C3: insert(p, c) with p.y <= row count, then delete(p), leaves the row
\* contents as they were before the insert, with dirty true.
\* the outcome of the two calls is the document as it was, but dirty
Undone(at, c, mode) ==
    LET i == insert(Doc, at, c, mode)
        r == delete(i.doc, at)
    IN  /\ ~i.panicked
        /\ ~r.panicked
        /\ Content(r.doc.rows) = Content(rows)
        /\ r.doc.dirty

InsertDeleteInverse ==
    \A at \in Positions, c \in Chars : \A mode \in ModesAt(at, c) :
        Accepted(at) => Undone(at, c, mode)

\* C3, amended: the same for a position in an existing row, p.y < row count
\* and p.x <= length of row p.y.
InsertDeleteInverseInside ==
    \A at \in Positions, c \in Chars : \A mode \in ModesAt(at, c) :
        (Inside(at) /\ at.x <= RowLen(Get(rows, at.y))) => Undone(at, c, mode)

InsertDeleteInverseReached ==
    /\ last.op = "delete"
    /\ last.undoes
    /\ last.where = "inside"
    /\ Len(rows) >= 2
    /\ \E i \in 1..Len(rows) : RowLen(rows[i]) >= 1

\* C4: a save that succeeds, then open of the same path, gives rows equal to
\* the rows saved, character for character.
SavedThenOpened == open(save(Doc, NoFile, NoFailure(Doc)).disk, Path)

RoundTrip ==
    file_name # None =>
        /\ save(Doc, NoFile, NoFailure(Doc)).ok
        /\ SavedThenOpened.ok
        /\ Content(SavedThenOpened.doc.rows) = Content(rows)

\* C5: after every call every row's annotations are those computed from the
\* row's content as it is now.
Consistent(r) ==
    \E opts \in HighlightingOptions, word \in Words :
        r.highlighting = Annotate(r.string, opts, word)

HighlightConsistent == \A i \in 1..Len(rows) : Consistent(rows[i])

\* C6: a document returned by open is not dirty; after an insert with
\* position.y <= row count and after a delete with position.y < row count
\* dirty is true.
DirtySetByEdits ==
    /\ (last.op = "open" /\ last.ok) => ~dirty
    /\ (last.op = "insert" /\ last.where # "beyond") => dirty
    /\ (last.op = "delete" /\ last.where = "inside") => dirty
    /\ \A at \in Positions :
          /\ Accepted(at) =>
                \A c \in Chars : \A mode \in ModesAt(at, c) :
                    insert(Doc, at, c, mode).doc.dirty
          /\ Inside(at) => delete(Doc, at).doc.dirty

DirtySetByEditsReached ==
    /\ last.op = "insert"
    /\ last.where = "append"
    /\ file_name # None
    /\ file_type = FileTypeFrom(Path)
    /\ dirty

\* C7: whenever save returns success, dirty is false afterwards.
SaveOkClearsDirty ==
    \A fail \in SaveFailures(Doc) :
        LET r == save(Doc, NoFile, fail) IN r.ok => ~r.doc.dirty

\* C7, amended: whenever save returns success on a document that has a file
\* name, dirty is false afterwards.
NamedSaveOkClearsDirty ==
    /\ (last.op = "save" /\ last.ok /\ file_name # None) => ~dirty
    /\ file_name # None =>
          \A fail \in SaveFailures(Doc) :
              LET r == save(Doc, NoFile, fail) IN r.ok => ~r.doc.dirty

NamedSaveOkReached ==
    /\ last.op = "save"
    /\ last.ok
    /\ file_name # None
    /\ Len(rows) >= 2
    /\ ~dirty

\* C8: a save that returns an error on a dirty document leaves dirty true and
\* every row's content as it was; dirty is cleared only when File::create and
\* every write of every row succeeded.
FailedSaveKeepsDirty ==
    dirty =>
        \A fail \in SaveFailures(Doc) :
            LET r == save(Doc, NoFile, fail)
            IN  /\ ~r.ok => (r.doc.dirty /\ Content(r.doc.rows) = Content(rows))
                /\ ~r.doc.dirty =>
                      /\ fail = NoFailure(Doc)
                      /\ r.disk = Written(rows, 1, 2 * Len(rows))

FailedSaveReached ==
    /\ last.op = "save"
    /\ ~last.ok
    /\ dirty
    /\ Len(rows) >= 2
    /\ file_type = FileTypeFrom(Path)

\* C9: no row's content holds the line-break character.
NoLineBreakInRows ==
    \A i \in 1..Len(rows) : \A j \in 1..RowLen(rows[i]) : rows[i].string[j] # NL

NoLineBreakReached ==
    /\ last.op = "insert"
    /\ last.c = NL
    /\ last.where = "inside"
    /\ Len(rows) >= 2
    /\ \E i \in 1..Len(rows) : RowLen(rows[i]) >= 1

\* C10: insert(position, '\n') with position.y equal to the row count appends
\* one empty row and leaves every row that existed as it was, whatever
\* position.x.
NewlineAtEnd ==
    /\ \A x \in 0..(MaxLen + 1) :
          LET r == insert(Doc, [x |-> x, y |-> Len(rows)], NL, "clamp")
          IN  /\ ~r.panicked
              /\ Len(r.doc.rows) = Len(rows) + 1
              /\ RowLen(r.doc.rows[Len(rows) + 1]) = 0
              /\ \A i \in 1..Len(rows) : r.doc.rows[i] = rows[i]
    /\ (last.op = "insert" /\ last.c = NL /\ last.where = "append") =>
          (Len(rows) >= 1 /\ RowLen(rows[Len(rows)]) = 0)

NewlineAtEndReached ==
    /\ last.op = "insert"
    /\ last.c = NL
    /\ last.where = "append"
    /\ last.at.x > 0
    /\ Len(rows) >= 2
    /\ RowLen(rows[1]) >= 1
    /\ RowLen(rows[Len(rows)]) = 0

ForwardHit(query, at, y, mode) ==
    RowFind(Get(rows, y), query, IF y = at.y THEN at.x ELSE 0, Forward, mode)

ForwardFirst(query, at, mode) ==
    LET hits == {y \in at.y..(Len(rows) - 1) : ForwardHit(query, at, y, mode) # None}
        first == MinOf(hits)
    IN  IF hits = {} THEN None
        ELSE Some([x |-> Unwrap(ForwardHit(query, at, first, mode)), y |-> first])

ForwardFindsFirst ==
    \A query \in Queries, at \in Positions :
        Inside(at) =>
            \A mode \in FindModesAt(at, Forward) :
                find(Doc, query, at, Forward, mode) = ForwardFirst(query, at, mode)

ForwardFindsFirstReached ==
    /\ last.op = "find"
    /\ last.dir = Forward
    /\ last.ok
    /\ last.where = "other"
    /\ Len(rows) >= 2

\* C13: find(query, from, Backward) with from.y < row count returns the first
\* match of row from.y within the columns before from.x, then of rows
\* from.y - 1, .., 0 (row 0 included) up to the row's end, in that order, and
\* nothing exactly when none of those rows has one.
BackwardHit(query, at, y, mode) ==
    RowFind(Get(rows, y), query,
            IF y = at.y THEN at.x ELSE RowLen(Get(rows, y)), Backward, mode)

BackwardFirst(query, at, mode) ==
    LET hits == {y \in 0..at.y : BackwardHit(query, at, y, mode) # None}
        first == MaxOf(hits)
    IN  IF hits = {} THEN None
        ELSE Some([x |-> Unwrap(BackwardHit(query, at, first, mode)), y |-> first])

BackwardFindsFirst ==
    \A query \in Queries, at \in Positions :
        Inside(at) =>
            \A mode \in FindModesAt(at, Backward) :
                find(Doc, query, at, Backward, mode) = BackwardFirst(query, at, mode)

BackwardFindsFirstReached ==
    /\ last.op = "find"
    /\ last.dir = Backward
    /\ last.ok
    /\ last.where = "other"
    /\ Len(rows) = 2
    /\ RowLen(rows[2]) >= 1

\* C19: find returns nothing when from.y is at or past the row count; a
\* position it returns names an existing row y with the query at column x of
\* it, y >= from.y looking forward and y <= from.y looking backward; and a
\* call of find leaves rows and dirty as they were.
SoundResult(query, at, direction, r) ==
    /\ ~Inside(at) => r = None
    /\ r # None =>
          /\ Unwrap(r).y < Len(rows)
          /\ OccursAt(Get(rows, Unwrap(r).y).string, query, Unwrap(r).x + 1)
          /\ direction = Forward => Unwrap(r).y >= at.y
          /\ direction = Backward => Unwrap(r).y <= at.y

FindResults ==
    \A query \in Queries, at \in Positions, direction \in {Forward, Backward} :
        \A mode \in FindModesAt(at, direction) :
            SoundResult(query, at, direction, find(Doc, query, at, direction, mode))

FindIsSound ==
    /\ []FindResults
    /\ [][last'.op = "find" => UNCHANGED <<rows, dirty>>]_vars

FindIsSoundReached ==
    /\ last.op = "find"
    /\ last.where = "append"
    /\ ~last.ok
    /\ \E i \in 1..Len(rows) : OccursAt(rows[i].string, <<Letter>>, 1)

\* C14: save on a document without a file name returns success and leaves the
\* rows, dirty, the file type and the file system as they were.
UnnamedSaveNoOp ==
    /\ (last.op = "save" /\ file_name = None) => last.ok
    /\ file_name = None =>
          \A disk \in InitialFiles, fail \in SaveFailures(Doc) :
              LET r == save(Doc, disk, fail)
              IN  /\ r.ok
                  /\ r.doc = Doc
                  /\ r.disk = disk

UnnamedSaveNoOpReached ==
    /\ last.op = "save"
    /\ last.ok
    /\ file_name = None
    /\ dirty
    /\ Len(rows) >= 1

\* C15: insert(position, '\n') with position.y < row count and position.x <=
\* length of row y adds one row: row y keeps its first position.x characters,
\* the new row y + 1 holds the rest, the rows after y move down by one and,
\* like the rows before y, stay as they were.
NewlineSplitsRow ==
    \A at \in Positions :
        (Inside(at) /\ at.x <= RowLen(Get(rows, at.y))) =>
            LET r == insert(Doc, at, NL, "clamp")
                old == Get(rows, at.y).string
                new == r.doc.rows
            IN  /\ ~r.panicked
                /\ Len(new) = Len(rows) + 1
                /\ Get(new, at.y).string = SubSeq(old, 1, at.x)
                /\ Get(new, at.y + 1).string = SubSeq(old, at.x + 1, Len(old))
                /\ Get(new, at.y).string \o Get(new, at.y + 1).string = old
                /\ \A i \in 0..(at.y - 1) : Get(new, i) = Get(rows, i)
                /\ \A i \in (at.y + 1)..(Len(rows) - 1) : Get(new, i + 1) = Get(rows, i)

NewlineSplitsRowReached ==
    /\ last.op = "insert"
    /\ last.c = NL
    /\ last.where = "inside"
    /\ last.at.x >= 1
    /\ last.at.y = 0
    /\ Len(rows) >= 2
    /\ RowLen(rows[1]) = last.at.x
    /\ RowLen(rows[2]) >= 1

\* C16: delete(position) with position.y < row count: when position.x is the
\* length of row y and a row y + 1 exists, row y becomes row y followed by row
\* y + 1 and there is one row less; otherwise the row count stays and row y
\* loses the character at column position.x, or stays as it is when
\* position.x is at or past its end; every other row stays as it was.
Without(s, x) ==
    IF x < Len(s) THEN SubSeq(s, 1, x) \o SubSeq(s, x + 2, Len(s)) ELSE s

DeleteMergesOrRemoves ==
    /\ last.op = "delete" => last.delta \in {-1, 0}
    /\ \A at \in Positions :
        Inside(at) =>
            LET r == delete(Doc, at)
                old == Get(rows, at.y).string
                new == r.doc.rows
            IN  /\ ~r.panicked
                /\ \A i \in 0..(at.y - 1) : Get(new, i) = Get(rows, i)
                /\ IF at.x = Len(old) /\ at.y + 1 < Len(rows)
                   THEN /\ Len(new) = Len(rows) - 1
                        /\ Get(new, at.y).string = old \o Get(rows, at.y + 1).string
                        /\ \A i \in (at.y + 2)..(Len(rows) - 1) :
                              Get(new, i - 1) = Get(rows, i)
                   ELSE /\ Len(new) = Len(rows)
                        /\ Get(new, at.y).string = Without(old, at.x)
                        /\ \A i \in (at.y + 1)..(Len(rows) - 1) :
                              Get(new, i) = Get(rows, i)

DeleteMergesOrRemovesReached ==
    /\ last.op = "delete"
    /\ last.where = "inside"
    /\ last.delta = -1
    /\ Len(rows) >= 1
    /\ \E i \in 1..Len(rows) : RowLen(rows[i]) = MaxLen

\* C17: insert(position, c) with c not a line break: with position.y equal to
\* the row count one row holding just c is appended and the rows that existed
\* stay as they were; with position.y < row count the row count stays, only
\* row y changes, and it gains c at column position.x.
Gains(old, new, x, c) ==
    /\ Len(new) = Len(old) + 1
    /\ x < Len(new)
    /\ new[x + 1] = c
    /\ Without(new, x) = old

CharInsert ==
    \A at \in Positions, c \in Chars \ {NL} :
        Accepted(at) =>
            \A mode \in ModesAt(at, c) :
                LET r == insert(Doc, at, c, mode)
                    new == r.doc.rows
                IN  /\ ~r.panicked
                    /\ \A i \in 0..(Len(rows) - 1) : i # at.y => Get(new, i) = Get(rows, i)
                    /\ IF at.y = Len(rows)
                       THEN /\ Len(new) = Len(rows) + 1
                            /\ Get(new, at.y).string = <<c>>
                       ELSE /\ Len(new) = Len(rows)
                            /\ Gains(Get(rows, at.y).string, Get(new, at.y).string, at.x, c)

\* C18: whatever the position, the column that insert (newline insertion
\* included) hands to a row's insert or split is at most the length the row
\* has at that moment.
ColumnsInRange ==
    \A at \in Positions, c \in Chars :
        \A h \in RowColumns(Doc, at, c) : h.column >= 0 /\ h.column <= h.len

\* C20: a document with a row keeps having one: an insert adds no row or one,
\* a delete removes no row or one, and one only when a row follows the row it
\* is called on; highlight and save leave the number of rows as it is.
RowsAfter(r) == Len(r.doc.rows) - Len(rows)

NeverEmptied ==
    /\ last.op = "insert" => last.delta \in {0, 1}
    /\ last.delta = -1 => Len(rows) >= 1
    /\ \A at \in Positions :
          LET r == delete(Doc, at)
          IN  /\ ~r.panicked
              /\ RowsAfter(r) \in {-1, 0}
              /\ RowsAfter(r) = -1 => at.y + 1 < Len(rows)
              /\ Len(rows) >= 1 => Len(r.doc.rows) >= 1
    /\ \A at \in Positions, c \in Chars :
          \A mode \in ModesAt(at, c) : RowsAfter(insert(Doc, at, c, mode)) \in {0, 1}
    /\ \A word \in Words : Len(highlight(Doc, word).rows) = Len(rows)
    /\ \A fail \in SaveFailures(Doc) : RowsAfter(save(Doc, NoFile, fail)) = 0

NeverEmptiedReached ==
    /\ last.op = "delete"
    /\ last.delta = 0
    /\ last.where = "inside"
    /\ Len(rows) = 1
    /\ RowLen(rows[1]) = 0

====
